---- MODULE Spec2Model ----
(***************************************************************************)
(* A model of index.js, the WordPress/Yoast data extractor.                *)
(*                                                                         *)
(* An action is a stretch of code that runs without yielding to the event  *)
(* loop: the sending of a request up to its await, or the handling of an   *)
(* answer up to the next loop test.  JavaScript strings are sequences of   *)
(* one-character strings, so that length, startsWith, join and template    *)
(* literals are computed, not assumed.  An absent (undefined) property is  *)
(* None, a present one is Some(v).  net, typeLog, fetchLog and console     *)
(* record what the run did; the code never reads them.                     *)
(***************************************************************************)
EXTENDS Integers, Sequences, FiniteSets, TLC

VARIABLES
    pc,               \* the stage main is in
    page,             \* `page` of the running paginated fetch
    totalPages,       \* `totalPages` of the running paginated fetch
    inflight,         \* the HTTP requests issued and not yet answered
    authorCache,      \* Map id -> name
    categoryCache,    \* Map id -> name
    tagCache,         \* Map id -> name
    mediaCache,       \* Map id -> {url, alt}
    postTypes,        \* the list getPostTypes returned
    typeIdx,          \* position of the for-of loop of main in postTypes
    allItems,         \* `allItems` of the running fetchPaginatedData
    allExtractedData, \* `allExtractedData` of main
    flatData,         \* the rows of Promise.all, NoRow while a mapper is pending
    fs,               \* the file system: directory made, file written
    exitCode,         \* the process's exit status, Running while it runs
    net,              \* what the network saw: every request issued, in order
    typeLog,          \* per fetched post type, how its listing ended, what it requested
                      \* and what it received
    fetchLog,         \* of the running paginated fetch: the pages it requested, in
                      \* order, and the x-wp-totalpages header of its first answer
    console           \* the kinds of message printed so far

vars == <<pc, page, totalPages, inflight, authorCache, categoryCache, tagCache,
          mediaCache, postTypes, typeIdx, allItems, allExtractedData, flatData,
          fs, exitCode, net, typeLog, fetchLog, console>>

----------------------------------------------------------------------------
(* Bounds of the model.                                                    *)

\* the largest x-wp-totalpages value a server announces
MaxPages == 2
\* the most post-type entries in a /types answer
MaxTypes == 1
\* how far around each audit threshold the text lengths of RowItems go
LengthSlack == 1
\* the most post-type entries in a /types answer when getPostTypes runs alone
MaxListing == 2

----------------------------------------------------------------------------
(* JavaScript values.                                                      *)

None == <<>>
Some(v) == <<v>>

\* `x || d` for an optional string: undefined and '' are falsy
StrOr(opt, d) == IF opt = None \/ opt[1] = <<>> THEN d ELSE opt[1]

\* `x || d` for an optional array or object: only undefined is falsy
ObjOr(opt, d) == IF opt = None THEN d ELSE opt[1]

\* the empty string ''
Empty == <<>>

\* String(n) for an integer n >= 0, as a template literal prints it
Digit(d) ==
    CASE d = 0 -> "0" [] d = 1 -> "1" [] d = 2 -> "2" [] d = 3 -> "3"
      [] d = 4 -> "4" [] d = 5 -> "5" [] d = 6 -> "6" [] d = 7 -> "7"
      [] d = 8 -> "8" [] d = 9 -> "9"

RECURSIVE NumStr(_)
NumStr(n) == IF n < 10 THEN <<Digit(n)>> ELSE NumStr(n \div 10) \o <<Digit(n % 10)>>

\* String.prototype.startsWith
StartsWith(s, prefix) ==
    /\ Len(s) >= Len(prefix)
    /\ SubSeq(s, 1, Len(prefix)) = prefix

\* Array.prototype.join(', ') on an array of strings
RECURSIVE JoinComma(_)
JoinComma(strs) ==
    IF strs = <<>> THEN Empty
    ELSE IF Len(strs) = 1 THEN strs[1]
    ELSE strs[1] \o <<",", " ">> \o JoinComma(Tail(strs))

\* whether `needle` occurs in `s` (String.prototype.includes)
Includes(s, needle) ==
    \E i \in 1..(Len(s) - Len(needle) + 1) : SubSeq(s, i, i + Len(needle) - 1) = needle

\* a string of n characters
Chars(n) == [i \in 1..n |-> "x"]

\* Map.prototype.get(k) || dflt : a missing key and a falsy (empty) value both give dflt
GetOr(map, k, dflt) ==
    IF k \in DOMAIN map /\ map[k] # Empty THEN map[k] ELSE dflt

\* Map.prototype.set
MapSet(map, k, v) == [x \in DOMAIN map \cup {k} |-> IF x = k THEN v ELSE map[x]]

EmptyMap == [x \in {} |-> Empty]

----------------------------------------------------------------------------
(* parseInt(header, 10) || 1                                               *)

DigitVal(c) ==
    CASE c = "0" -> 0 [] c = "1" -> 1 [] c = "2" -> 2 [] c = "3" -> 3
      [] c = "4" -> 4 [] c = "5" -> 5 [] c = "6" -> 6 [] c = "7" -> 7
      [] c = "8" -> 8 [] c = "9" -> 9

IsDigit(c) == c \in {"0", "1", "2", "3", "4", "5", "6", "7", "8", "9"}

\* the value of the longest prefix of digits of s, continuing from acc
RECURSIVE DigitPrefix(_, _)
DigitPrefix(s, acc) ==
    IF s = <<>> \/ ~IsDigit(Head(s)) THEN acc
    ELSE DigitPrefix(Tail(s), 10 * acc + DigitVal(Head(s)))

\* parseInt(h, 10): None is NaN (an absent header, or no leading digit)
ParseInt(h) ==
    IF h = None THEN None
    ELSE LET s == h[1] IN
         IF s # <<>> /\ IsDigit(Head(s)) THEN Some(DigitPrefix(s, 0))
         ELSE IF Len(s) >= 2 /\ Head(s) = "-" /\ IsDigit(s[2])
              THEN Some(0 - DigitPrefix(Tail(s), 0))
         ELSE None

\* parseInt(response.headers['x-wp-totalpages'], 10) || 1 : NaN and 0 are falsy
ParseTotalPages(h) ==
    LET n == ParseInt(h) IN
    IF n = None \/ n = Some(0) THEN 1 ELSE n[1]

----------------------------------------------------------------------------
(* The server: what the WordPress REST API answers.  Its content is fixed; *)
(* which requests fail, with what status, and how many pages a listing     *)
(* announces are free.                                                     *)

\* the x-wp-totalpages header of an answer: absent, not a number, or 0..MaxPages
TotalPagesHeaders ==
    {None, Some(<<"n", "/", "a">>)} \cup {Some(NumStr(n)) : n \in 0..MaxPages}

\* the name the server gives user, category or tag `id`
EntryName(endpoint, id) ==
    (CASE endpoint = "users" -> <<"U">>
       [] endpoint = "categories" -> <<"C">>
       [] endpoint = "tags" -> <<"T">>) \o NumStr(id)

\* response.data of page p of /users, /categories, /tags: one entry a page
RefPage(endpoint, p) == <<[id |-> p, name |-> EntryName(endpoint, p)]>>

\* response.data of GET /media/{id}
MediaBody(id) ==
    IF id = 5 THEN [source_url |-> Some(<<"u", "5">>), alt_text |-> Some(<<"a", "5">>)]
    ELSE IF id = 6 THEN [source_url |-> Some(<<"u", "6">>), alt_text |-> Some(Empty)]
    ELSE [source_url |-> None, alt_text |-> None]

----------------------------------------------------------------------------
(* Requests.                                                               *)

\* one GET: `path` the endpoint, `arg` the page or the media id, `who` the
\* mapper of createAndSaveReport that issued it (0: main itself)
Request(path, arg, who) == [path |-> path, arg |-> arg, who |-> who]

RefStages == {"CacheAuthors", "CacheCategories", "CacheTags"}

Endpoint(stage) ==
    CASE stage = "CacheAuthors" -> "users"
      [] stage = "CacheCategories" -> "categories"
      [] stage = "CacheTags" -> "tags"

\* the tags fetched before the categories
AfterRef_TagsFirst(stage) ==
    CASE stage = "CacheAuthors" -> "CacheTags"
      [] stage = "CacheTags" -> "CacheCategories"
      [] stage = "CacheCategories" -> "DiscoverTypes"

\* main, lines 272-276: the statement after each fetchAndCacheAll
AfterRef(stage) ==
    CASE stage = "CacheAuthors" -> "CacheCategories"
      [] stage = "CacheCategories" -> "CacheTags"
      [] stage = "CacheTags" -> "DiscoverTypes"

Running == None

\* no paginated fetch is running, or it has not requested anything yet
NoFetch == [asked |-> <<>>, header |-> None]

----------------------------------------------------------------------------
(* Content items, as GET /{postType} returns them (the projection of       *)
(* lines 114-118, less the columns that are copied through unchanged).     *)

\* article.keywords: absent, a scalar string, or an array of strings
NoKeywords == [kind |-> "none", list |-> <<>>]
ScalarKeywords(str) == [kind |-> "scalar", list |-> <<str>>]
ArrayKeywords(strs) == [kind |-> "array", list |-> strs]

\* a node of yoast_head_json.schema['@graph']
GraphNode(type, keywords) == [type |-> type, keywords |-> keywords]

\* yoast_head_json
Yoast(title, description, og_image, graph) ==
    [title |-> title, description |-> description, og_image |-> og_image,
     graph |-> graph]

Item(id, author, categories, tags, featured_media, yoast) ==
    [id |-> id, author |-> author, categories |-> categories, tags |-> tags,
     featured_media |-> featured_media, yoast_head_json |-> yoast]

\* the items the modelled site holds
ItemA ==
    Item(1, 1, Some(<<1, 2>>), Some(<<2>>), 5,
         Some(Yoast(Some(Chars(3)), Some(Chars(4)),
                    Some(<<[url |-> Some(<<"o">>)]>>),
                    Some(<<GraphNode("WebPage", NoKeywords),
                           GraphNode("Article", ArrayKeywords(<<<<"k">>, <<"w">>>>))>>))))
ItemB == Item(2, 2, Some(<<3>>), Some(<<>>), 5, None)
ItemC == Item(3, 1, None, None, 0, Some(Yoast(None, None, None, None)))
ItemD == Item(4, 3, Some(<<>>), Some(<<1>>), 6, None)

\* response.data of page p of GET /{slug}
ItemsPage(slug, p) ==
    CASE slug = "posts" /\ p = 1 -> <<ItemA, ItemC>>
      [] slug = "posts" /\ p = 2 -> <<ItemB>>
      [] slug = "pages" /\ p = 2 -> <<ItemD>>
      [] OTHER -> <<>>

\* the entries of a GET /types answer
TypeEntries == [viewable : BOOLEAN, rest_base : {"", "pages"}]

\* Object.values(response.data) of GET /types: at most MaxTypes entries
TypeListings == UNION {[1..n -> TypeEntries] : n \in 0..MaxTypes}

\* the filter without the test of rest_base: every viewable entry is kept
RECURSIVE AvailableTypes_AnyViewable(_)
AvailableTypes_AnyViewable(listing) ==
    IF listing = <<>> THEN <<>>
    ELSE LET type == Head(listing) IN
         (IF type.viewable THEN <<type.rest_base>> ELSE <<>>)
             \o AvailableTypes_AnyViewable(Tail(listing))

\* Array.prototype.filter, then map to rest_base (lines 88-90)
RECURSIVE AvailableTypes(_)
AvailableTypes(listing) ==
    IF listing = <<>> THEN <<>>
    ELSE LET type == Head(listing) IN
         (IF type.viewable /\ type.rest_base # "" THEN <<type.rest_base>> ELSE <<>>)
             \o AvailableTypes(Tail(listing))

\* items.map(item => ({ ...item, postType: type }))  (line 282)
WithType(items, type) ==
    [i \in 1..Len(items) |-> [item |-> items[i], postType |-> type]]

----------------------------------------------------------------------------
(* The state after construction: module load, main about to prompt.        *)

Init ==
    /\ pc = "CollectCredentials"
    /\ page = 1
    /\ totalPages = 1
    /\ inflight = {}
    /\ authorCache = EmptyMap
    /\ categoryCache = EmptyMap
    /\ tagCache = EmptyMap
    /\ mediaCache = EmptyMap
    /\ postTypes = <<>>
    /\ typeIdx = 1
    /\ allItems = <<>>
    /\ allExtractedData = <<>>
    /\ flatData = <<>>
    /\ fs = [dir |-> FALSE, file |-> None]
    /\ exitCode = Running
    /\ net = <<>>
    /\ typeLog = <<>>
    /\ fetchLog = NoFetch
    /\ console = {}

\* axiosInstance.get: the request leaves, the caller is suspended on it
Send(req) ==
    /\ inflight' = inflight \cup {req}
    /\ net' = Append(net, req)

\* main().catch (lines 291-294)
TopLevelCatch ==
    /\ console' = console \cup {<<"error: unexpected", "main">>}
    /\ exitCode' = Some(1)
    /\ pc' = "Exited"

\* inquirer.prompt (lines 263-267): answers, or rejects (input closed)
CollectCredentials ==
    /\ pc = "CollectCredentials"
    /\ \/ pc' = "BuildClient" /\ UNCHANGED <<console, exitCode>>
       \/ TopLevelCatch
    /\ UNCHANGED <<page, totalPages, inflight, authorCache, categoryCache, tagCache,
                   mediaCache, postTypes, typeIdx, allItems, allExtractedData,
                   flatData, fs, net, typeLog, fetchLog>>

\* setupApiClient (lines 24-32, 269)
SetupApiClient ==
    /\ pc = "BuildClient"
    /\ pc' = "CacheAuthors"
    /\ UNCHANGED <<page, totalPages, inflight, authorCache, categoryCache, tagCache,
                   mediaCache, postTypes, typeIdx, allItems, allExtractedData,
                   flatData, fs, exitCode, net, typeLog, console, fetchLog>>

----------------------------------------------------------------------------
(* fetchAndCacheAll (lines 39-54)                                          *)

\* response.data.forEach(item => cache.set(item.id, item.name))
RECURSIVE CacheAll(_, _)
CacheAll(cache, data) ==
    IF data = <<>> THEN cache
    ELSE CacheAll(MapSet(cache, Head(data).id, Head(data).name), Tail(data))

\* the caches after `data` went into the cache of `stage`
SetCaches(stage, data) ==
    /\ authorCache' = IF stage = "CacheAuthors" THEN CacheAll(authorCache, data)
                      ELSE authorCache
    /\ categoryCache' = IF stage = "CacheCategories" THEN CacheAll(categoryCache, data)
                        ELSE categoryCache
    /\ tagCache' = IF stage = "CacheTags" THEN CacheAll(tagCache, data)
                   ELSE tagCache

\* line 44-45: the loop condition holds, the page is requested
RefRequest ==
    /\ pc \in RefStages
    /\ inflight = {}
    /\ page <= totalPages
    /\ Send(Request(Endpoint(pc), page, 0))
    /\ fetchLog' = [fetchLog EXCEPT !.asked = Append(@, page)]
    /\ UNCHANGED <<pc, page, totalPages, authorCache, categoryCache, tagCache,
                   mediaCache, postTypes, typeIdx, allItems, allExtractedData,
                   flatData, fs, exitCode, typeLog, console>>

\* lines 46-48: the page arrives
RefResponse ==
    /\ pc \in RefStages
    /\ inflight # {}
    /\ \E h \in TotalPagesHeaders :
          /\ totalPages' = IF page = 1 THEN ParseTotalPages(h) ELSE totalPages
          /\ fetchLog' = IF fetchLog.header = None THEN [fetchLog EXCEPT !.header = Some(h)]
                         ELSE fetchLog
    /\ SetCaches(pc, RefPage(Endpoint(pc), page))
    /\ page' = page + 1
    /\ inflight' = {}
    /\ UNCHANGED <<pc, mediaCache, postTypes, typeIdx, allItems, allExtractedData,
                   flatData, fs, exitCode, net, typeLog, console>>

\* the catch that empties the cache it was filling
RefFailure_Rollback ==
    /\ pc \in RefStages
    /\ inflight # {}
    /\ inflight' = {}
    /\ console' = console \cup {<<"warn: could not fetch", Endpoint(pc)>>}
    /\ authorCache' = IF pc = "CacheAuthors" THEN EmptyMap ELSE authorCache
    /\ categoryCache' = IF pc = "CacheCategories" THEN EmptyMap ELSE categoryCache
    /\ tagCache' = IF pc = "CacheTags" THEN EmptyMap ELSE tagCache
    /\ pc' = AfterRef(pc)
    /\ page' = 1
    /\ totalPages' = 1
    /\ fetchLog' = NoFetch
    /\ UNCHANGED <<mediaCache, postTypes, typeIdx, allItems, allExtractedData,
                   flatData, fs, exitCode, net, typeLog>>

\* lines 51-53: the request fails; warn and return
RefFailure ==
    /\ pc \in RefStages
    /\ inflight # {}
    /\ inflight' = {}
    /\ console' = console \cup {<<"warn: could not fetch", Endpoint(pc)>>}
    /\ pc' = AfterRef(pc)
    /\ page' = 1
    /\ totalPages' = 1
    /\ fetchLog' = NoFetch
    /\ UNCHANGED <<authorCache, categoryCache, tagCache, mediaCache, postTypes,
                   typeIdx, allItems, allExtractedData, flatData, fs, exitCode,
                   net, typeLog>>

\* lines 44, 50: the loop ends; return to main
RefDone ==
    /\ pc \in RefStages
    /\ inflight = {}
    /\ page > totalPages
    /\ pc' = AfterRef(pc)
    /\ page' = 1
    /\ totalPages' = 1
    /\ fetchLog' = NoFetch
    /\ UNCHANGED <<inflight, authorCache, categoryCache, tagCache, mediaCache,
                   postTypes, typeIdx, allItems, allExtractedData, flatData, fs,
                   exitCode, net, typeLog, console>>

----------------------------------------------------------------------------
(* getPostTypes (lines 84-103)                                             *)

\* line 87
TypesRequest ==
    /\ pc = "DiscoverTypes"
    /\ inflight = {}
    /\ Send(Request("types", 0, 0))
    /\ UNCHANGED <<pc, page, totalPages, authorCache, categoryCache, tagCache,
                   mediaCache, postTypes, typeIdx, allItems, allExtractedData,
                   flatData, fs, exitCode, typeLog, console, fetchLog>>

\* lines 88-98, then main lines 276-277, when the answer lists `listing`
TypesResponseTo(listing) ==
    /\ pc = "DiscoverTypes"
    /\ inflight # {}
    /\ inflight' = {}
    /\ LET availableTypes == AvailableTypes(listing) IN
       IF Len(availableTypes) > 0
       THEN /\ postTypes' = availableTypes
            /\ console' = console \cup {<<"log: found post types", "types">>}
       ELSE /\ postTypes' = <<"posts", "pages">>
            /\ console' = console \cup {<<"warn: defaulting", "types">>}
    /\ pc' = "FetchType"
    /\ typeIdx' = 1
    /\ allExtractedData' = <<>>
    /\ UNCHANGED <<page, totalPages, authorCache, categoryCache, tagCache,
                   mediaCache, allItems, flatData, fs, exitCode, net, typeLog,
                   fetchLog>>

\* the /types request is answered
TypesResponse == \E listing \in TypeListings : TypesResponseTo(listing)

\* the catch that falls back to the default types instead of exiting
TypesFailure_Default ==
    /\ pc = "DiscoverTypes"
    /\ inflight # {}
    /\ inflight' = {}
    /\ console' = console \cup {<<"error: fatal", "types">>}
    /\ postTypes' = <<"posts", "pages">>
    /\ pc' = "FetchType"
    /\ UNCHANGED <<page, totalPages, authorCache, categoryCache, tagCache,
                   mediaCache, typeIdx, allItems, allExtractedData, flatData, fs,
                   exitCode, net, typeLog, fetchLog>>

\* lines 99-102: process.exit(1)
TypesFailure ==
    /\ pc = "DiscoverTypes"
    /\ inflight # {}
    /\ inflight' = {}
    /\ console' = console \cup {<<"error: fatal", "types">>}
    /\ exitCode' = Some(1)
    /\ pc' = "Exited"
    /\ UNCHANGED <<page, totalPages, authorCache, categoryCache, tagCache,
                   mediaCache, postTypes, typeIdx, allItems, allExtractedData,
                   flatData, fs, net, typeLog, fetchLog>>

----------------------------------------------------------------------------
(* fetchPaginatedData (lines 108-145) inside the loop of main (279-285)    *)

\* the post type the loop of main is at
CurrentType == postTypes[typeIdx]

\* the loop without its await: the next page is requested with the current one
ItemsRequest_Prefetch ==
    /\ pc = "FetchType"
    /\ typeIdx <= Len(postTypes)
    /\ inflight = {}
    /\ page <= totalPages
    /\ inflight' = {Request(CurrentType, page, 0), Request(CurrentType, page + 1, 0)}
    /\ net' = net \o <<Request(CurrentType, page, 0), Request(CurrentType, page + 1, 0)>>
    /\ fetchLog' = [fetchLog EXCEPT !.asked = @ \o <<page, page + 1>>]
    /\ UNCHANGED <<pc, page, totalPages, authorCache, categoryCache, tagCache,
                   mediaCache, postTypes, typeIdx, allItems, allExtractedData,
                   flatData, fs, exitCode, typeLog, console>>

\* lines 121-124
ItemsRequest ==
    /\ pc = "FetchType"
    /\ typeIdx <= Len(postTypes)
    /\ inflight = {}
    /\ page <= totalPages
    /\ Send(Request(CurrentType, page, 0))
    /\ fetchLog' = [fetchLog EXCEPT !.asked = Append(@, page)]
    /\ UNCHANGED <<pc, page, totalPages, authorCache, categoryCache, tagCache,
                   mediaCache, postTypes, typeIdx, allItems, allExtractedData,
                   flatData, fs, exitCode, typeLog, console>>

\* the total read from every answer, not only from the first
ItemsResponse_Reread ==
    /\ pc = "FetchType"
    /\ inflight # {}
    /\ inflight' = {}
    /\ \E h \in TotalPagesHeaders :
          /\ totalPages' = ParseTotalPages(h)
          /\ fetchLog' = IF fetchLog.header = None THEN [fetchLog EXCEPT !.header = Some(h)]
                         ELSE fetchLog
    /\ LET data == ItemsPage(CurrentType, page) IN
       allItems' = IF Len(data) > 0 THEN allItems \o data ELSE allItems
    /\ page' = page + 1
    /\ UNCHANGED <<pc, authorCache, categoryCache, tagCache, mediaCache, postTypes,
                   typeIdx, allExtractedData, flatData, fs, exitCode, net, typeLog,
                   console>>

\* lines 126-134
ItemsResponse ==
    /\ pc = "FetchType"
    /\ inflight # {}
    /\ inflight' = {}
    /\ \E h \in TotalPagesHeaders :
          /\ totalPages' = IF page = 1 THEN ParseTotalPages(h) ELSE totalPages
          /\ fetchLog' = IF fetchLog.header = None THEN [fetchLog EXCEPT !.header = Some(h)]
                         ELSE fetchLog
    /\ LET data == ItemsPage(CurrentType, page) IN
       allItems' = IF Len(data) > 0 THEN allItems \o data ELSE allItems
    /\ page' = page + 1
    /\ UNCHANGED <<pc, authorCache, categoryCache, tagCache, mediaCache, postTypes,
                   typeIdx, allExtractedData, flatData, fs, exitCode, net, typeLog,
                   console>>

\* main lines 280-284 with the list fetchPaginatedData returned
PushItems(items, outcome) ==
    /\ allExtractedData' =
          IF Len(items) > 0 THEN allExtractedData \o WithType(items, CurrentType)
          ELSE allExtractedData
    /\ typeLog' = Append(typeLog, [type |-> CurrentType, outcome |-> outcome,
                                   received |-> allItems, asked |-> fetchLog.asked])
    /\ fetchLog' = NoFetch
    /\ typeIdx' = typeIdx + 1
    /\ allItems' = <<>>
    /\ page' = 1
    /\ totalPages' = 1

\* the catch that rethrows: a failed listing ends the run at main().catch
ItemsFailure_Abort ==
    /\ pc = "FetchType"
    /\ inflight # {}
    /\ inflight' = {}
    /\ \E status \in {"404", "other"} :
          /\ console' = console \cup {<<"error: unexpected", "main">>}
          /\ PushItems(<<>>, status)
    /\ pc' = "Exited"
    /\ exitCode' = Some(1)
    /\ UNCHANGED <<authorCache, categoryCache, tagCache, mediaCache, postTypes,
                   flatData, fs, net>>

\* the catch that lets the loop ask for the failed page again
ItemsFailure_Retry ==
    /\ pc = "FetchType"
    /\ inflight # {}
    /\ inflight' = {}
    /\ console' = console \cup {<<"error: fetching data", CurrentType>>}
    /\ UNCHANGED <<pc, page, totalPages, authorCache, categoryCache, tagCache,
                   mediaCache, postTypes, typeIdx, allItems, allExtractedData,
                   flatData, fs, exitCode, net, typeLog, fetchLog>>

\* the catch that returns what the pages before the failure gave
ItemsFailure_KeepPartial ==
    /\ pc = "FetchType"
    /\ inflight # {}
    /\ inflight' = {}
    /\ \E status \in {"404", "other"} :
          /\ console' = console \cup
                {IF status = "404" THEN <<"log: no items found", CurrentType>>
                 ELSE <<"error: fetching data", CurrentType>>}
          /\ PushItems(allItems, status)
    /\ UNCHANGED <<pc, authorCache, categoryCache, tagCache, mediaCache, postTypes,
                   flatData, fs, exitCode, net>>

\* lines 136-143: the request fails, with status 404 or otherwise; return []
ItemsFailure ==
    /\ pc = "FetchType"
    /\ inflight # {}
    /\ inflight' = {}
    /\ \E status \in {"404", "other"} :
          /\ console' = console \cup
                {IF status = "404" THEN <<"log: no items found", CurrentType>>
                 ELSE <<"error: fetching data", CurrentType>>}
          /\ PushItems(<<>>, status)
    /\ UNCHANGED <<pc, authorCache, categoryCache, tagCache, mediaCache, postTypes,
                   flatData, fs, exitCode, net>>

\* lines 121, 144: the loop ends; return allItems
ItemsDone ==
    /\ pc = "FetchType"
    /\ typeIdx <= Len(postTypes)
    /\ inflight = {}
    /\ page > totalPages
    /\ PushItems(allItems, "ok")
    /\ UNCHANGED <<pc, inflight, authorCache, categoryCache, tagCache, mediaCache,
                   postTypes, flatData, fs, exitCode, net, console>>

\* line 279: the for-of loop is over; line 287
TypesLoopDone ==
    /\ pc = "FetchType"
    /\ typeIdx > Len(postTypes)
    /\ pc' = "Flatten"
    /\ UNCHANGED <<page, totalPages, inflight, authorCache, categoryCache, tagCache,
                   mediaCache, postTypes, typeIdx, allItems, allExtractedData,
                   flatData, fs, exitCode, net, typeLog, console, fetchLog>>

----------------------------------------------------------------------------
(* The row flattener: the mapper of createAndSaveReport (lines 160-239).   *)
(* The columns copied through unchanged from the item are left out.        *)

\* line 182
totalPossibleScore == 7

\* line 62: the result for a falsy media id
NoImage == [url |-> Empty, alt |-> Empty]

\* line 75: 'Error fetching image'
ErrorText ==
    <<"E", "r", "r", "o", "r", " ", "f", "e", "t", "c", "h", "i", "n", "g", " ",
      "i", "m", "a", "g", "e">>

\* line 75: the value cached and returned when the lookup fails
ErrorData == [url |-> ErrorText, alt |-> ErrorText]

\* lines 67-70: the value cached and returned when the lookup succeeds
ImageData(body) ==
    [url |-> StrOr(body.source_url, Empty), alt |-> StrOr(body.alt_text, Empty)]

\* `ID:${id}`
IdPlaceholder(id) == <<"I", "D", ":">> \o NumStr(id)

\* the join without its fallback: cache.get(id) || ''
Resolve_NoFallback(cache, id) == GetOr(cache, id, Empty)

\* cache.get(id) || `ID:${id}`  (lines 176, 177, 205)
Resolve(cache, id) == GetOr(cache, id, IdPlaceholder(id))

\* (ids || []).map(id => cache.get(id) || `ID:${id}`)
ResolveAll(cache, ids) ==
    LET list == ObjOr(ids, <<>>) IN [i \in 1..Len(list) |-> Resolve(cache, list[i])]

\* lines 162-165: graph.find(g => g['@type'] === 'Article') || {}, its keywords
ArticleKeywords(yoast) ==
    LET graph == IF yoast = None THEN <<>> ELSE ObjOr(yoast[1].graph, <<>>)
        hits == {i \in 1..Len(graph) : graph[i].type = "Article"}
    IN  IF hits = {} THEN NoKeywords
        ELSE graph[CHOOSE i \in hits : \A j \in hits : i <= j].keywords

\* line 168
FocusKeyphrase(keywords) ==
    CASE keywords.kind = "array" -> JoinComma(keywords.list)
      [] keywords.kind = "scalar" -> keywords.list[1]
      [] OTHER -> Empty

\* line 172: yoastData.og_image && yoastData.og_image[0]; None is a falsy result
OgImageObject(yoast) ==
    IF yoast = None THEN None
    ELSE LET og == yoast[1].og_image IN
         IF og = None \/ og[1] = <<>> THEN None ELSE Some(og[1][1])

\* lines 173, 174: yoastData.title || '', yoastData.description || ''
YoastText(yoast, field) ==
    IF yoast = None THEN Empty
    ELSE StrOr(IF field = "title" THEN yoast[1].title ELSE yoast[1].description, Empty)

\* line 183, 184: (list || []).length > 0
HasAny(ids) == Len(ObjOr(ids, <<>>)) > 0

\* line 185
HasImageUrl(featuredImageData) ==
    featuredImageData.url # Empty
        /\ ~StartsWith(featuredImageData.url, <<"E", "r", "r", "o", "r">>)

\* line 186
HasImageAlt(featuredImageData) == featuredImageData.alt # Empty

\* line 189: ogImageObject && ogImageObject.url
HasOgImageUrl(ogImageObject) ==
    ogImageObject # None /\ StrOr(ogImageObject[1].url, Empty) # Empty

Point(condition) == IF condition THEN 1 ELSE 0

\* lines 181-189
CompletenessScore(item, featuredImageData) ==
    Point(HasAny(item.categories))
      + Point(HasAny(item.tags))
      + Point(HasImageUrl(featuredImageData))
      + Point(HasImageAlt(featuredImageData))
      + Point(YoastText(item.yoast_head_json, "description") # Empty)
      + Point(FocusKeyphrase(ArticleKeywords(item.yoast_head_json)) # Empty)
      + Point(HasOgImageUrl(OgImageObject(item.yoast_head_json)))

\* line 229: `${completenessScore} / ${totalPossibleScore}`
ScoreText(completenessScore) ==
    NumStr(completenessScore) \o <<" ", "/", " ">> \o NumStr(totalPossibleScore)

\* the comparison off by one: length >= 60
IsTitleTooLong_Inclusive(yoastTitle) == Len(yoastTitle) >= 60

\* line 192
IsTitleTooLong(yoastTitle) == Len(yoastTitle) > 60

\* line 193
IsTitleTooShort(yoastTitle) == Len(yoastTitle) < 30

\* line 194
IsDescMissing(yoastDesc) == yoastDesc = Empty

\* line 195
IsDescTooLong(yoastDesc) == Len(yoastDesc) > 160

\* the comparison without its lower bound: an empty description is short too
IsDescTooShort_NoFloor(yoastDesc) == Len(yoastDesc) < 70

\* line 196
IsDescTooShort(yoastDesc) == Len(yoastDesc) > 0 /\ Len(yoastDesc) < 70

\* line 198: featuredImageData.url && !featuredImageData.alt
IsFeaturedImageAltMissing(featuredImageData) ==
    featuredImageData.url # Empty /\ featuredImageData.alt = Empty

\* lines 230-236
YesNo(flag) == IF flag THEN "Yes" ELSE "No"

\* lines 161-238: the row of one item, given the image data its lookup returned
FlattenItem(entry, featuredImageData) ==
    LET item == entry.item
        yoast == item.yoast_head_json
        yoastTitle == YoastText(yoast, "title")
        yoastDesc == YoastText(yoast, "description")
        ogImageObject == OgImageObject(yoast)
    IN  [postType |-> entry.postType,
         id |-> item.id,
         authorName |-> Resolve(authorCache, item.author),
         authorId |-> item.author,
         categories |-> JoinComma(ResolveAll(categoryCache, item.categories)),
         tags |-> JoinComma(ResolveAll(tagCache, item.tags)),
         featuredImageUrl |-> featuredImageData.url,
         featuredImageAlt |-> featuredImageData.alt,
         yoastTitle |-> yoastTitle,
         yoastDesc |-> yoastDesc,
         focusKeyphrase |-> FocusKeyphrase(ArticleKeywords(yoast)),
         ogImage |-> IF ogImageObject # None THEN ogImageObject[1].url ELSE Some(Empty),
         score |-> ScoreText(CompletenessScore(item, featuredImageData)),
         isTitleTooLong |-> YesNo(IsTitleTooLong(yoastTitle)),
         isTitleTooShort |-> YesNo(IsTitleTooShort(yoastTitle)),
         isDescMissing |-> YesNo(IsDescMissing(yoastDesc)),
         isDescTooLong |-> YesNo(IsDescTooLong(yoastDesc)),
         isDescTooShort |-> YesNo(IsDescTooShort(yoastDesc)),
         isOgImageMissing |-> YesNo(ogImageObject = None),
         isFeaturedImageAltMissing |-> YesNo(IsFeaturedImageAltMissing(featuredImageData))]

----------------------------------------------------------------------------
(* getFeaturedImageData (lines 61-79) and createAndSaveReport (153-255)    *)

\* lines 62-63: what getFeaturedImageData returns without a request; None
\* when it goes on to line 66
CachedImage(mediaId) ==
    IF mediaId = 0 THEN Some(NoImage)
    ELSE IF mediaId \in DOMAIN mediaCache THEN Some(mediaCache[mediaId])
    ELSE None

\* line 66, for the mappers from i on, in the order allData.map calls them
RECURSIVE MediaRequests(_, _)
MediaRequests(allData, i) ==
    IF i > Len(allData) THEN <<>>
    ELSE LET mediaId == allData[i].item.featured_media IN
         (IF CachedImage(mediaId) = None THEN <<Request("media", mediaId, i)>>
          ELSE <<>>) \o MediaRequests(allData, i + 1)

Range(seq) == {seq[i] : i \in 1..Len(seq)}

\* the guard without its return: an empty report is written
NoData_WritesEmpty ==
    /\ pc = "Flatten"
    /\ Len(allExtractedData) = 0
    /\ console' = console \cup {<<"log: no data", "report">>}
    /\ pc' = "Write"
    /\ UNCHANGED <<page, totalPages, inflight, authorCache, categoryCache, tagCache,
                   mediaCache, postTypes, typeIdx, allItems, allExtractedData,
                   flatData, fs, exitCode, net, typeLog, fetchLog>>

\* lines 154-157: nothing was extracted
NoData ==
    /\ pc = "Flatten"
    /\ Len(allExtractedData) = 0
    /\ console' = console \cup {<<"log: no data", "report">>}
    /\ pc' = "Done"
    /\ exitCode' = Some(0)
    /\ UNCHANGED <<page, totalPages, inflight, authorCache, categoryCache, tagCache,
                   mediaCache, postTypes, typeIdx, allItems, allExtractedData,
                   flatData, fs, net, typeLog, fetchLog>>

\* line 160: allData.map runs every mapper up to its first await, one after
\* the other, before any response is handled.  A mapper whose media id is
\* falsy or cached goes on to its row; every other one has issued its GET.
FlattenStart ==
    /\ pc = "Flatten"
    /\ Len(allExtractedData) > 0
    /\ flatData = <<>>
    /\ LET requests == MediaRequests(allExtractedData, 1) IN
       /\ inflight' = inflight \cup Range(requests)
       /\ net' = net \o requests
    /\ flatData' =
          [i \in 1..Len(allExtractedData) |->
              LET image == CachedImage(allExtractedData[i].item.featured_media) IN
              IF image = None THEN None
              ELSE Some(FlattenItem(allExtractedData[i], image[1]))]
    /\ UNCHANGED <<pc, page, totalPages, authorCache, categoryCache, tagCache,
                   mediaCache, postTypes, typeIdx, allItems, allExtractedData, fs,
                   exitCode, typeLog, console, fetchLog>>

\* rows pushed to a shared array as the lookups return, not returned to map
MediaReturn_Push(req, imageData) ==
    /\ inflight' = inflight \ {req}
    /\ mediaCache' = MapSet(mediaCache, req.arg, imageData)
    /\ flatData' =
          LET slot == CHOOSE i \in 1..Len(flatData) :
                          flatData[i] = None /\ \A j \in 1..(i - 1) : flatData[j] # None
          IN  [flatData EXCEPT
                 ![slot] = Some(FlattenItem(allExtractedData[req.who], imageData))]

\* a lookup returns `imageData` to the mapper that awaits it: lines 71/76, then
\* the mapper's lines 180-238
MediaReturn(req, imageData) ==
    /\ inflight' = inflight \ {req}
    /\ mediaCache' = MapSet(mediaCache, req.arg, imageData)
    /\ flatData' = [flatData EXCEPT
                      ![req.who] = Some(FlattenItem(allExtractedData[req.who], imageData))]

\* lines 66-72
MediaResponse ==
    /\ pc = "Flatten"
    /\ \E req \in inflight : MediaReturn(req, ImageData(MediaBody(req.arg)))
    /\ UNCHANGED <<pc, page, totalPages, authorCache, categoryCache, tagCache,
                   postTypes, typeIdx, allItems, allExtractedData, fs, exitCode,
                   net, typeLog, console, fetchLog>>

\* lines 73-78
MediaFailure ==
    /\ pc = "Flatten"
    /\ \E req \in inflight :
          /\ MediaReturn(req, ErrorData)
          /\ console' = console \cup {<<"warn: could not fetch media", NumStr(req.arg)>>}
    /\ UNCHANGED <<pc, page, totalPages, authorCache, categoryCache, tagCache,
                   postTypes, typeIdx, allItems, allExtractedData, fs, exitCode,
                   net, typeLog, fetchLog>>

\* Promise.race in place of Promise.all: the first row ends the wait
FlattenDone_Race ==
    /\ pc = "Flatten"
    /\ flatData # <<>>
    /\ \E i \in 1..Len(flatData) : flatData[i] # None
    /\ pc' = "Write"
    /\ UNCHANGED <<page, totalPages, inflight, authorCache, categoryCache, tagCache,
                   mediaCache, postTypes, typeIdx, allItems, allExtractedData,
                   flatData, fs, exitCode, net, typeLog, console, fetchLog>>

\* lines 239-249: Promise.all resolves once every mapper has returned its row
FlattenDone ==
    /\ pc = "Flatten"
    /\ flatData # <<>>
    /\ \A i \in 1..Len(flatData) : flatData[i] # None
    /\ pc' = "Write"
    /\ UNCHANGED <<page, totalPages, inflight, authorCache, categoryCache, tagCache,
                   mediaCache, postTypes, typeIdx, allItems, allExtractedData,
                   flatData, fs, exitCode, net, typeLog, console, fetchLog>>

\* the catch that exits with status 1
SaveFailed_Exit ==
    /\ console' = console \cup {<<"error: saving", "report">>}
    /\ pc' = "Exited"
    /\ exitCode' = Some(1)

\* lines 252-254, then main returns
SaveFailed ==
    /\ console' = console \cup {<<"error: saving", "report">>}
    /\ pc' = "Done"
    /\ exitCode' = Some(0)

\* line 249: fs.mkdir
Mkdir ==
    /\ pc = "Write"
    /\ ~fs.dir
    /\ \/ fs' = [fs EXCEPT !.dir = TRUE] /\ UNCHANGED <<pc, exitCode, console>>
       \/ SaveFailed /\ UNCHANGED fs
    /\ UNCHANGED <<page, totalPages, inflight, authorCache, categoryCache, tagCache,
                   mediaCache, postTypes, typeIdx, allItems, allExtractedData,
                   flatData, net, typeLog, fetchLog>>

\* lines 241, 250-251: fs.writeFile of the CSV of flatData, as its rows
WriteFile ==
    /\ pc = "Write"
    /\ fs.dir
    /\ \/ /\ fs' = [fs EXCEPT !.file = Some([i \in 1..Len(flatData) |-> flatData[i][1]])]
          /\ console' = console \cup {<<"log: saved", "report">>}
          /\ pc' = "Done"
          /\ exitCode' = Some(0)
       \/ SaveFailed /\ UNCHANGED fs
    /\ UNCHANGED <<page, totalPages, inflight, authorCache, categoryCache, tagCache,
                   mediaCache, postTypes, typeIdx, allItems, allExtractedData,
                   flatData, net, typeLog, fetchLog>>

----------------------------------------------------------------------------
(* One run of the program.                                                 *)

Next ==
    \/ CollectCredentials
    \/ SetupApiClient
    \/ RefRequest
    \/ RefResponse
    \/ RefFailure
    \/ RefDone
    \/ TypesRequest
    \/ TypesResponse
    \/ TypesFailure
    \/ ItemsRequest
    \/ ItemsResponse
    \/ ItemsFailure
    \/ ItemsDone
    \/ TypesLoopDone
    \/ NoData
    \/ FlattenStart
    \/ MediaResponse
    \/ MediaFailure
    \/ FlattenDone
    \/ Mkdir
    \/ WriteFile

Spec == Init /\ [][Next]_vars

\* a run in which every request is answered or fails and every continuation
\* that can run does run
SpecLive == Init /\ [][Next]_vars /\ WF_vars(Next)

----------------------------------------------------------------------------
(* The flattener on its own: createAndSaveReport entered with one item of  *)
(* any shape and with the reference caches in any state the three          *)
(* fetchAndCacheAll calls can leave them in.                               *)

\* text lengths around the thresholds 30, 60 (title) and 70, 160 (description)
Around(threshold) == (threshold - LengthSlack)..(threshold + LengthSlack)

RowTitles == {None} \cup {Some(Chars(n)) : n \in {0} \cup Around(30) \cup Around(60)}
RowDescriptions == {None} \cup {Some(Chars(n)) : n \in {0} \cup Around(70) \cup Around(160)}

RowOgImages ==
    {None, Some(<<>>), Some(<<[url |-> None]>>), Some(<<[url |-> Some(<<"o">>)]>>)}

RowGraphs ==
    {None,
     Some(<<GraphNode("WebPage", NoKeywords)>>),
     Some(<<GraphNode("Article", ArrayKeywords(<<>>))>>),
     Some(<<GraphNode("WebPage", NoKeywords), GraphNode("Article", ScalarKeywords(<<"k">>))>>),
     Some(<<GraphNode("Article", ArrayKeywords(<<<<"k">>, <<"w">>>>)),
            GraphNode("Article", NoKeywords)>>)}

\* items that differ in everything the score and the joins read
ScoreItems ==
    {Item(9, author, categories, tags, featured_media, yoast) :
        author \in {1, 2},
        categories \in {None, Some(<<>>), Some(<<2, 1>>)},
        tags \in {None, Some(<<1>>)},
        featured_media \in {0, 5, 6, 7},
        yoast \in {None} \cup
            {Some(Yoast(Some(Chars(30)), description, og_image, graph)) :
                description \in {None, Some(Chars(70))},
                og_image \in RowOgImages,
                graph \in RowGraphs}}

\* items that differ in the lengths the title and description audits read
TextItems ==
    {Item(9, 1, None, None, 0, Some(Yoast(title, description, None, None))) :
        title \in RowTitles, description \in RowDescriptions}

RowItems == ScoreItems \cup TextItems

\* a cache holding the server's names of `ids`
CacheOf(endpoint, ids) == [id \in ids |-> EntryName(endpoint, id)]

InitRow ==
    /\ pc = "Flatten"
    /\ page = 1
    /\ totalPages = 1
    /\ inflight = {}
    /\ \E ids \in {{}, {1}, {1, 2}} : authorCache = CacheOf("users", ids)
    /\ \E ids \in {{}, {1}, {1, 2}} : categoryCache = CacheOf("categories", ids)
    /\ \E ids \in {{}, {1}} : tagCache = CacheOf("tags", ids)
    /\ mediaCache = EmptyMap
    /\ postTypes = <<"posts">>
    /\ typeIdx = 2
    /\ allItems = <<>>
    /\ \E item \in RowItems :
          /\ allExtractedData = WithType(<<item>>, "posts")
          /\ typeLog = <<[type |-> "posts", outcome |-> "ok", received |-> <<item>>,
                           asked |-> <<1>>]>>
    /\ fetchLog = NoFetch
    /\ flatData = <<>>
    /\ fs = [dir |-> FALSE, file |-> None]
    /\ exitCode = Running
    /\ net = <<Request("users", 1, 0), Request("categories", 1, 0),
               Request("tags", 1, 0), Request("types", 0, 0), Request("posts", 1, 0)>>
    /\ console = {<<"log: found post types", "types">>}

NextRow ==
    \/ FlattenStart
    \/ MediaResponse
    \/ MediaFailure

SpecRow == InitRow /\ [][NextRow]_vars

----------------------------------------------------------------------------
(* getPostTypes on its own: the /types request made after the three        *)
(* reference fetches, answered with any listing of up to MaxListing        *)
(* entries.                                                                *)

AnyTypeEntries == [viewable : BOOLEAN, rest_base : {"", "posts", "pages", "books"}]

AnyTypeListings == UNION {[1..n -> AnyTypeEntries] : n \in 0..MaxListing}

InitTypes ==
    /\ pc = "DiscoverTypes"
    /\ page = 1
    /\ totalPages = 1
    /\ inflight = {}
    /\ \E ids \in {{}, {1}, {1, 2}} : authorCache = CacheOf("users", ids)
    /\ \E ids \in {{}, {1}, {1, 2}} : categoryCache = CacheOf("categories", ids)
    /\ \E ids \in {{}, {1}} : tagCache = CacheOf("tags", ids)
    /\ mediaCache = EmptyMap
    /\ postTypes = <<>>
    /\ typeIdx = 1
    /\ allItems = <<>>
    /\ allExtractedData = <<>>
    /\ flatData = <<>>
    /\ fs = [dir |-> FALSE, file |-> None]
    /\ exitCode = Running
    /\ net = <<Request("users", 1, 0), Request("categories", 1, 0), Request("tags", 1, 0)>>
    /\ typeLog = <<>>
    /\ fetchLog = NoFetch
    /\ console = {}

\* the /types request is answered with any listing
TypesAnswer == \E listing \in AnyTypeListings : TypesResponseTo(listing)

NextTypes ==
    \/ TypesRequest
    \/ TypesAnswer
    \/ TypesFailure

SpecTypes == InitTypes /\ [][NextTypes]_vars

----------------------------------------------------------------------------
(* Claims about the rows.                                                  *)

\* the mappers that have returned their row
DoneRows == {i \in 1..Len(flatData) : flatData[i] # None}

\* the row's image data is the value a failed lookup returns
LookupFailed(row) == row.featuredImageUrl = ErrorText /\ row.featuredImageAlt = ErrorText

\* the seven conditions of the completeness score that hold of an item and
\* the image its lookup found, counted from the item and the written columns
ScoreConditions(item, row) ==
    {c \in 1..7 :
        CASE c = 1 -> item.categories # None /\ item.categories[1] # <<>>
          [] c = 2 -> item.tags # None /\ item.tags[1] # <<>>
          [] c = 3 -> row.featuredImageUrl # Empty /\ ~LookupFailed(row)
          [] c = 4 -> row.featuredImageAlt # Empty /\ ~LookupFailed(row)
          [] c = 5 -> row.yoastDesc # Empty
          [] c = 6 -> row.focusKeyphrase # Empty
          [] c = 7 -> row.ogImage # None /\ row.ogImage[1] # Empty}

\* C7: the written score is "<n> / 7" with n, in 0..7, the number of the seven
\* conditions (categories, tags, non-error image URL, alt text on the image,
\* description, focus keyphrase, OG-image URL) that hold of the item.
C7_ScoreCountsConditions ==
    \A i \in DoneRows :
        LET row == flatData[i][1]
            n == Cardinality(ScoreConditions(allExtractedData[i].item, row))
        IN  /\ n \in 0..7
            /\ row.score = NumStr(n) \o <<" ", "/", " ", "7">>

\* C8: an item whose media lookup failed gets the score and the alt-missing
\* flag the same item gets with no featured image.
C8_FailedLookupIsNoImage ==
    \A i \in DoneRows :
        LET row == flatData[i][1]
            bare == FlattenItem(allExtractedData[i], NoImage)
        IN  LookupFailed(row) =>
                /\ row.score = bare.score
                /\ row.isFeaturedImageAltMissing = bare.isFeaturedImageAltMissing

\* what the row shows for `id`: the cached name, or ID:<id> without an entry
Shown(cache, id) == IF id \in DOMAIN cache THEN cache[id] ELSE <<"I", "D", ":">> \o NumStr(id)

ShownList(cache, ids) ==
    LET list == IF ids = None THEN <<>> ELSE ids[1] IN
    JoinComma([k \in 1..Len(list) |-> Shown(cache, list[k])])

IdsOf(ids) == IF ids = None THEN {} ELSE Range(ids[1])

\* C9: every category, tag and author id without a cache entry appears in the
\* row as ID:<id>, every id with an entry as its cached name, whatever the
\* caches hold.
C9_PlaceholderForUnknownIds ==
    \A i \in DoneRows :
        LET row == flatData[i][1]
            item == allExtractedData[i].item
        IN  /\ row.categories = ShownList(categoryCache, item.categories)
            /\ row.tags = ShownList(tagCache, item.tags)
            /\ row.authorName = Shown(authorCache, item.author)
            /\ \A id \in IdsOf(item.categories) \ DOMAIN categoryCache :
                  Includes(row.categories, <<"I", "D", ":">> \o NumStr(id))
            /\ \A id \in IdsOf(item.tags) \ DOMAIN tagCache :
                  Includes(row.tags, <<"I", "D", ":">> \o NumStr(id))

\* a row whose categories mix a cached name and a placeholder, and whose
\* author is unknown
C9_Witness ==
    \E i \in DoneRows :
        LET item == allExtractedData[i].item IN
        /\ item.categories = Some(<<2, 1>>)
        /\ DOMAIN categoryCache = {1}
        /\ item.author \notin DOMAIN authorCache
        /\ flatData[i][1].categories = <<"I", "D", ":", "2", ",", " ", "C", "1">>
        /\ flatData[i][1].authorName = <<"I", "D", ":">> \o NumStr(item.author)

\* the length of the item's Yoast title, 0 when it has none
TitleLength(item) ==
    IF item.yoast_head_json = None \/ item.yoast_head_json[1].title = None THEN 0
    ELSE Len(item.yoast_head_json[1].title[1])

\* C10: Too Long is Yes exactly when the title is longer than 60, Too Short
\* exactly when it is shorter than 30, and never both.
C10_TitleLengthAudits ==
    \A i \in DoneRows :
        LET row == flatData[i][1]
            n == TitleLength(allExtractedData[i].item)
        IN  /\ row.isTitleTooLong = (IF n > 60 THEN "Yes" ELSE "No")
            /\ row.isTitleTooShort = (IF n < 30 THEN "Yes" ELSE "No")
            /\ (n = 60 => row.isTitleTooLong = "No")
            /\ (n = 61 => row.isTitleTooLong = "Yes")
            /\ (n = 30 => row.isTitleTooShort = "No")
            /\ (n = 29 => row.isTitleTooShort = "Yes")
            /\ ~(row.isTitleTooLong = "Yes" /\ row.isTitleTooShort = "Yes")

\* a row of a title of exactly 60 characters: neither too long nor too short
C10_Witness ==
    \E i \in DoneRows :
        /\ TitleLength(allExtractedData[i].item) = 60
        /\ flatData[i][1].isTitleTooLong = "No"
        /\ flatData[i][1].isTitleTooShort = "No"

\* the length of the item's Yoast description, 0 when it has none
DescLength(item) ==
    IF item.yoast_head_json = None \/ item.yoast_head_json[1].description = None THEN 0
    ELSE Len(item.yoast_head_json[1].description[1])

\* the three description columns of a row
DescFlags(row) == <<row.isDescMissing, row.isDescTooLong, row.isDescTooShort>>

\* C11: for a description of n characters Missing is Yes exactly when n = 0,
\* Too Long exactly when n > 160, Too Short exactly when 0 < n < 70 (so 69 is
\* short and 70 is not), and at most one of the three columns is Yes.
C11_DescriptionAudits ==
    \A i \in DoneRows :
        LET row == flatData[i][1]
            n == DescLength(allExtractedData[i].item)
        IN  /\ row.isDescMissing = (IF n = 0 THEN "Yes" ELSE "No")
            /\ row.isDescTooLong = (IF n > 160 THEN "Yes" ELSE "No")
            /\ row.isDescTooShort = (IF 0 < n /\ n < 70 THEN "Yes" ELSE "No")
            /\ (n = 69 => row.isDescTooShort = "Yes")
            /\ (n = 70 => row.isDescTooShort = "No")
            /\ (n = 160 => row.isDescTooLong = "No")
            /\ (n = 161 => row.isDescTooLong = "Yes")
            /\ Cardinality({k \in 1..3 : DescFlags(row)[k] = "Yes"}) <= 1

\* a row of a description of 69 characters: too short, and nothing else
C11_Witness ==
    \E i \in DoneRows :
        /\ DescLength(allExtractedData[i].item) = 69
        /\ DescFlags(flatData[i][1]) = <<"No", "No", "Yes">>

----------------------------------------------------------------------------
(* Claims about the run.                                                   *)

\* the GET /media/{id} requests issued so far
MediaGets(id) == {k \in 1..Len(net) : net[k].path = "media" /\ net[k].arg = id}

\* C1: for every non-falsy media id, all lookups of that id together cause at
\* most one GET /media/{id} and return the same {url, alt}.
C1_MemoizedLookup ==
    /\ \A k \in 1..Len(net) : net[k].path = "media" => Cardinality(MediaGets(net[k].arg)) <= 1
    /\ \A i, j \in DoneRows :
          (/\ allExtractedData[i].item.featured_media # 0
           /\ allExtractedData[i].item.featured_media = allExtractedData[j].item.featured_media)
          => /\ flatData[i][1].featuredImageUrl = flatData[j][1].featuredImageUrl
             /\ flatData[i][1].featuredImageAlt = flatData[j][1].featuredImageAlt

WithMedia == {i \in 1..Len(allExtractedData) : allExtractedData[i].item.featured_media # 0}

RECURSIVE Contributions(_)
Contributions(log) ==
    IF log = <<>> THEN <<>>
    ELSE Contributions(SubSeq(log, 1, Len(log) - 1)) \o
         (LET last == log[Len(log)] IN
          IF last.outcome = "ok" THEN WithType(last.received, last.type) ELSE <<>>)

\* the items of pages 1..n of a listing
RECURSIVE ServedPages(_, _)
ServedPages(slug, n) ==
    IF n = 0 THEN <<>> ELSE ServedPages(slug, n - 1) \o ItemsPage(slug, n)

NotFoundTypes == {k \in 1..Len(typeLog) : typeLog[k].outcome = "404"}

\* C3: when a type's listing fails with 404 the run goes on: that type adds
\* nothing, every other discovered type is fetched and adds exactly the pages
\* it was served, and a run that got any item goes on to write the report.
C3_NotFoundTypeIsSkipped ==
    NotFoundTypes # {} =>
        /\ exitCode # Some(1)
        /\ allExtractedData = Contributions(typeLog)
        /\ \A k \in 1..Len(typeLog) :
              /\ typeLog[k].type = postTypes[k]
              /\ typeLog[k].outcome = "ok" =>
                    \E n \in 1..MaxPages : typeLog[k].received = ServedPages(typeLog[k].type, n)
        /\ pc \in {"Flatten", "Write", "Done"} => Len(typeLog) = Len(postTypes)
        /\ (pc = "Done" /\ allExtractedData # <<>>) =>
              \/ fs.file # None /\ Len(fs.file[1]) = Len(allExtractedData)
              \/ <<"error: saving", "report">> \in console

\* a finished run in which one type answered 404 and the report of another
\* type's items was written
C3_Witness ==
    /\ pc = "Done"
    /\ NotFoundTypes # {}
    /\ \E k \in 1..Len(typeLog) : typeLog[k].outcome = "ok" /\ typeLog[k].received # <<>>
    /\ fs.file # None

\* every discovered type has been fetched
AllTypesFetched == postTypes # <<>> /\ Len(typeLog) = Len(postTypes)

\* C4: when all types together gave no item, no media lookup is made, no
\* directory and no file are created, and the run ends with status 0.
C4_NoItemsNoReport ==
    (AllTypesFetched /\ allExtractedData = <<>>) =>
        /\ \A k \in 1..Len(net) : net[k].path # "media"
        /\ fs = [dir |-> FALSE, file |-> None]
        /\ pc \in {"FetchType", "Flatten", "Done"}
        /\ pc = "Done" => exitCode = Some(0)
        /\ pc # "Done" => exitCode = Running

C4_Witness ==
    /\ AllTypesFetched
    /\ allExtractedData = <<>>
    /\ pc = "Done"
    /\ exitCode = Some(0)

DiscoveryFailed == <<"error: fatal", "types">> \in console

\* C5: when GET /types fails the process ends with status 1; no item listing
\* and no media lookup was requested and nothing was written, whatever the
\* reference fetches did.
C5_DiscoveryFailureIsFatal ==
    DiscoveryFailed =>
        /\ pc = "Exited"
        /\ exitCode = Some(1)
        /\ \A k \in 1..Len(net) : net[k].path \in {"users", "categories", "tags", "types"}
        /\ inflight = {}
        /\ allExtractedData = <<>>
        /\ flatData = <<>>
        /\ fs = [dir |-> FALSE, file |-> None]

\* discovery failed after one reference fetch succeeded and another failed
C5_Witness ==
    /\ DiscoveryFailed
    /\ authorCache # EmptyMap
    /\ <<"warn: could not fetch", "categories">> \in console

\* C6: the exit status is 1 only after a failed discovery or an error that
\* reached main().catch; once discovery succeeded the run ends with status 0,
\* whatever failed among the reference fetches, the listings, the media
\* lookups and the file write.
C6_ExitStatus ==
    /\ exitCode = Some(1) =>
          \/ DiscoveryFailed
          \/ <<"error: unexpected", "main">> \in console
    /\ (pc \in {"Done", "Exited"} /\ postTypes # <<>>) => exitCode = Some(0)

\* a run that ended with status 0 although a reference fetch, a listing, a
\* media lookup and the file write all failed
C6_Witness ==
    /\ pc = "Done"
    /\ exitCode = Some(0)
    /\ \E endpoint \in {"users", "categories", "tags"} :
          <<"warn: could not fetch", endpoint>> \in console
    /\ \E k \in 1..Len(typeLog) : typeLog[k].outcome = "other"
    /\ \E i \in DoneRows : LookupFailed(flatData[i][1])
    /\ <<"error: saving", "report">> \in console

\* the items the run fetched, in fetch order: the discovered types in their
\* order, of each the pages in theirs, of each page the items in theirs
FetchedItems == Contributions(typeLog)

\* C12: the written report has exactly one row for each fetched item, in
\* fetch order (type, then page, then position in the page), in whatever
\* order the media lookups returned; while the rows are being made, each
\* finished row stands at the position of its item.
C12_RowsInFetchOrder ==
    /\ \A k \in 1..Len(typeLog) :
          /\ typeLog[k].type = postTypes[k]
          /\ typeLog[k].outcome = "ok" =>
                \E n \in 1..MaxPages : typeLog[k].received = ServedPages(typeLog[k].type, n)
    /\ flatData # <<>> =>
          /\ Len(flatData) = Len(FetchedItems)
          /\ \A i \in DoneRows :
                /\ flatData[i][1].postType = FetchedItems[i].postType
                /\ flatData[i][1].id = FetchedItems[i].item.id
                /\ flatData[i][1].authorId = FetchedItems[i].item.author
    /\ fs.file # None =>
          /\ Len(fs.file[1]) = Len(FetchedItems)
          /\ \A i \in 1..Len(FetchedItems) :
                /\ fs.file[1][i].postType = FetchedItems[i].postType
                /\ fs.file[1][i].id = FetchedItems[i].item.id
                /\ fs.file[1][i].authorId = FetchedItems[i].item.author

\* a written report of three rows whose first and third item share media id 5:
\* the first item's lookup failed, the third's succeeded, and the cache holds
\* the failure, so the first item's lookup returned after the third's
C12_Witness ==
    /\ fs.file # None
    /\ Len(fs.file[1]) = 3
    /\ <<fs.file[1][1].id, fs.file[1][2].id, fs.file[1][3].id>> = <<1, 3, 2>>
    /\ LookupFailed(fs.file[1][1])
    /\ ~LookupFailed(fs.file[1][3])
    /\ 5 \in DOMAIN mediaCache
    /\ mediaCache[5] = ErrorData

\* the stages a stage can be left for: the next one, Done with nothing to
\* write or after a failed write, Exited from the two places that exit
StageAfter(stage) ==
    CASE stage = "CollectCredentials" -> {"BuildClient", "Exited"}
      [] stage = "BuildClient" -> {"CacheAuthors"}
      [] stage = "CacheAuthors" -> {"CacheCategories"}
      [] stage = "CacheCategories" -> {"CacheTags"}
      [] stage = "CacheTags" -> {"DiscoverTypes"}
      [] stage = "DiscoverTypes" -> {"FetchType", "Exited"}
      [] stage = "FetchType" -> {"Flatten"}
      [] stage = "Flatten" -> {"Write", "Done"}
      [] stage = "Write" -> {"Done"}
      [] OTHER -> {}

\* the place of a request in the order of the stages that issue it
RequestRank(req) ==
    CASE req.path = "users" -> 1
      [] req.path = "categories" -> 2
      [] req.path = "tags" -> 3
      [] req.path = "types" -> 4
      [] req.path = "media" -> 6
      [] OTHER -> 5

\* the stage that issues the requests of a rank
StageOfRank(rank) ==
    CASE rank = 1 -> {"CacheAuthors"}
      [] rank = 2 -> {"CacheCategories"}
      [] rank = 3 -> {"CacheTags"}
      [] rank = 4 -> {"DiscoverTypes"}
      [] rank = 5 -> {"FetchType"}
      [] rank = 6 -> {"Flatten"}

\* every request was issued by its stage, after every request of the stages
\* before it: a request outstanding is one of the current stage, an item
\* listing comes after all requests for users, categories, tags and types,
\* and a media lookup after every discovered type has been fetched
RequestsFollowStages ==
    /\ \A k \in 1..(Len(net) - 1) : RequestRank(net[k]) <= RequestRank(net[k + 1])
    /\ \A r \in inflight : pc \in StageOfRank(RequestRank(r))
    /\ (\E k \in 1..Len(net) : RequestRank(net[k]) = 5) =>
          pc \in {"FetchType", "Flatten", "Write", "Done"}
    /\ (\E k \in 1..Len(net) : RequestRank(net[k]) = 6) =>
          /\ pc \in {"Flatten", "Write", "Done"}
          /\ AllTypesFetched

\* C13: the run goes through CollectCredentials, BuildClient, CacheAuthors,
\* CacheCategories, CacheTags, DiscoverTypes, FetchType (once for each type),
\* Flatten, Write, Done in this order and never back; no item listing is
\* requested before the three reference fetches are over, no media lookup
\* before the last type was fetched.
C13_StagesInOrder ==
    /\ []RequestsFollowStages
    /\ [][pc' # pc => pc' \in StageAfter(pc)]_vars

\* a finished run that went through every stage and made every kind of request
C13_Witness ==
    /\ pc = "Done"
    /\ fs.file # None
    /\ {RequestRank(net[k]) : k \in 1..Len(net)} = 1..6

----------------------------------------------------------------------------
(* Claims about pagination.                                                *)

PagedStages == RefStages \cup {"FetchType"}

\* the endpoint the running paginated fetch reads
PagedPath == IF pc \in RefStages THEN Endpoint(pc) ELSE CurrentType

\* the pages 1, 2, ..., n in increasing order, each once
FirstPages(n) == [i \in 1..n |-> i]

\* the total a first answer announces: the number in its x-wp-totalpages
\* header, 1 when the header is absent, not a number, or zero
Announced(header) ==
    IF \E n \in 1..MaxPages : header = Some(NumStr(n))
    THEN CHOOSE n \in 1..MaxPages : header = Some(NumStr(n))
    ELSE 1

\* the running fetch has asked for pages 1..k in order, with k no more than
\* the total its first answer announced; those requests are the last ones
\* the network saw; and when its loop is over it has asked for all of them
PagesInOrder ==
    (pc \in PagedStages /\ (pc = "FetchType" => typeIdx <= Len(postTypes))) =>
        LET asked == fetchLog.asked
            k == Len(asked)
        IN  /\ asked = FirstPages(k)
            /\ k <= Len(net)
            /\ \A i \in 1..k : net[Len(net) - k + i] = Request(PagedPath, i, 0)
            /\ fetchLog.header = None => k <= 1 /\ totalPages = 1
            /\ fetchLog.header # None =>
                  /\ totalPages = Announced(fetchLog.header[1])
                  /\ k <= totalPages
                  /\ (inflight = {} /\ page > totalPages) => k = totalPages

\* this step ends the running paginated fetch and no request of it failed
FetchEndsWell ==
    \/ /\ pc \in RefStages
       /\ pc' # pc
       /\ console' = console
    \/ /\ pc = "FetchType"
       /\ Len(typeLog') = Len(typeLog) + 1
       /\ typeLog'[Len(typeLog')].outcome = "ok"

\* C14: a paginated fetch none of whose requests fails, and whose first
\* answer announces N pages, requests pages 1, 2, ..., N in this order, each
\* once, and stops; N is read from the first answer only and is 1 when the
\* header is absent, not a number, or zero.
C14_PagesOneToTotal ==
    /\ []PagesInOrder
    /\ [][FetchEndsWell =>
             /\ inflight = {}
             /\ fetchLog.header # None
             /\ fetchLog.asked = FirstPages(Announced(fetchLog.header[1]))]_vars
    /\ [](\A k \in 1..Len(typeLog) :
             typeLog[k].outcome = "ok" =>
                 /\ typeLog[k].asked = FirstPages(Len(typeLog[k].asked))
                 /\ typeLog[k].received = ServedPages(typeLog[k].type, Len(typeLog[k].asked)))

\* the tags fetch has asked for its only page, announced by a header of "0",
\* after the users fetch went through two pages
C14_Witness ==
    /\ pc = "CacheTags"
    /\ fetchLog = [asked |-> <<1>>, header |-> Some(Some(<<"0">>))]
    /\ inflight = {}
    /\ page = 2
    /\ SubSeq(net, 1, 2) = <<Request("users", 1, 0), Request("users", 2, 0)>>
    /\ DOMAIN authorCache = {1, 2}
    /\ <<"warn: could not fetch", "users">> \notin console

----------------------------------------------------------------------------
(* Claims about failures.                                                  *)

RefEndpoints == {"users", "categories", "tags"}

\* the cache fetchAndCacheAll fills from an endpoint, and the stage that does
RefCache(endpoint) ==
    CASE endpoint = "users" -> authorCache
      [] endpoint = "categories" -> categoryCache
      [] endpoint = "tags" -> tagCache

RefStage(endpoint) == CHOOSE stage \in RefStages : Endpoint(stage) = endpoint

\* the stages that come after the fetch of an endpoint
StagesPast(endpoint) ==
    CASE endpoint = "users" ->
            {"CacheCategories", "CacheTags", "DiscoverTypes", "FetchType", "Flatten",
             "Write", "Done", "Exited"}
      [] endpoint = "categories" ->
            {"CacheTags", "DiscoverTypes", "FetchType", "Flatten", "Write", "Done", "Exited"}
      [] endpoint = "tags" ->
            {"DiscoverTypes", "FetchType", "Flatten", "Write", "Done", "Exited"}

\* the pages of an endpoint requested so far, in the order of the requests
RECURSIVE PagesAsked(_, _)
PagesAsked(endpoint, n) ==
    IF n = 0 THEN <<>>
    ELSE PagesAsked(endpoint, n - 1) \o
         (IF net[n].path = endpoint THEN <<net[n].arg>> ELSE <<>>)

\* a cache holding exactly the entries of pages 1..n of an endpoint
PagesCache(endpoint, n) ==
    LET entries == UNION {Range(RefPage(endpoint, p)) : p \in 1..n} IN
    [id \in {entry.id : entry \in entries} |->
        (CHOOSE entry \in entries : entry.id = id).name]

RefFailed(endpoint) == <<"warn: could not fetch", endpoint>> \in console

\* each reference cache holds exactly the pages of its endpoint that were
\* answered: after the request for page k failed these are pages 1..k-1, no
\* page after k was requested, and main has gone on past that fetch
FailedFetchKeepsPages ==
    \A endpoint \in RefEndpoints :
        LET asked == PagesAsked(endpoint, Len(net))
            k == Len(asked)
            waiting == Cardinality({r \in inflight : r.path = endpoint})
        IN  /\ asked = FirstPages(k)
            /\ RefFailed(endpoint) =>
                  /\ k >= 1
                  /\ RefCache(endpoint) = PagesCache(endpoint, k - 1)
                  /\ pc \in StagesPast(endpoint)
            /\ ~RefFailed(endpoint) => RefCache(endpoint) = PagesCache(endpoint, k - waiting)

\* C15: when the request for page k of users, categories or tags fails, the
\* cache keeps exactly the entries of pages 1..k-1, no later page is
\* requested, the other caches are as they were, and the run goes on with
\* the next stage.
C15_FailedRefFetchKeepsPartialCache ==
    /\ []FailedFetchKeepsPages
    /\ [][\A endpoint \in RefEndpoints :
             (RefFailed(endpoint)' /\ ~RefFailed(endpoint)) =>
                 /\ pc = RefStage(endpoint)
                 /\ pc' = (IF endpoint = "users" THEN "CacheCategories"
                           ELSE IF endpoint = "categories" THEN "CacheTags"
                           ELSE "DiscoverTypes")
                 /\ <<authorCache, categoryCache, tagCache, mediaCache>>'
                       = <<authorCache, categoryCache, tagCache, mediaCache>>
                 /\ exitCode' = Running]_vars

\* page 2 of the categories failed after page 1 was cached; the users before
\* and the tags after were cached whole
C15_Witness ==
    /\ RefFailed("categories")
    /\ PagesAsked("categories", Len(net)) = <<1, 2>>
    /\ DOMAIN categoryCache = {1}
    /\ DOMAIN authorCache = {1, 2}
    /\ DOMAIN tagCache = {1, 2}
    /\ pc = "DiscoverTypes"

\* the types whose listing failed, with 404 or otherwise
FailedTypes == {k \in 1..Len(typeLog) : typeLog[k].outcome # "ok"}

\* the requests the fetches of a log made, in order
RECURSIVE LoggedRequests(_)
LoggedRequests(log) ==
    IF log = <<>> THEN <<>>
    ELSE LET last == log[Len(log)] IN
         LoggedRequests(SubSeq(log, 1, Len(log) - 1)) \o
             [i \in 1..Len(last.asked) |-> Request(last.type, last.asked[i], 0)]

\* the item-listing requests the network saw, in order
RECURSIVE ListingRequests(_)
ListingRequests(n) ==
    IF n = 0 THEN <<>>
    ELSE ListingRequests(n - 1) \o (IF RequestRank(net[n]) = 5 THEN <<net[n]>> ELSE <<>>)

\* a failed listing was asked for pages 1..k, got the items of pages 1..k-1,
\* and added nothing; the listing requests of the run are those of the
\* fetched types, one after the other, and then those of the running fetch
FailedListingAddsNothing ==
    /\ \A k \in FailedTypes :
          LET n == Len(typeLog[k].asked) IN
          /\ n >= 1
          /\ typeLog[k].asked = FirstPages(n)
          /\ typeLog[k].received = ServedPages(typeLog[k].type, n - 1)
    /\ allExtractedData = Contributions(typeLog)
    /\ \A i \in 1..Len(allExtractedData) :
          \E k \in 1..Len(typeLog) \ FailedTypes :
              /\ allExtractedData[i].postType = typeLog[k].type
              /\ allExtractedData[i].item \in Range(typeLog[k].received)
    /\ ListingRequests(Len(net)) =
          LoggedRequests(typeLog) \o
              (IF pc = "FetchType" /\ typeIdx <= Len(postTypes)
               THEN [i \in 1..Len(fetchLog.asked) |-> Request(CurrentType, fetchLog.asked[i], 0)]
               ELSE <<>>)
    /\ pc \in {"Flatten", "Write", "Done"} => Len(typeLog) = Len(postTypes)
    /\ fs.file # None => Len(fs.file[1]) = Len(Contributions(typeLog))

\* C16: when a page request of a type's listing fails, on page 1 or later,
\* the type adds no row (the items of its earlier pages are dropped), no
\* further page of it is requested, nothing is retried, and the run goes on
\* to the next type.
C16_FailedListingIsDropped ==
    /\ []FailedListingAddsNothing
    /\ [][(Len(typeLog') = Len(typeLog) + 1 /\ typeLog'[Len(typeLog')].outcome # "ok") =>
             /\ allExtractedData' = allExtractedData
             /\ inflight' = {}
             /\ pc' = "FetchType"
             /\ typeIdx' = typeIdx + 1
             /\ page' = 1
             /\ exitCode' = Running]_vars

\* a written report of the one item of the second type, after page 2 of the
\* first type failed and the two items of its page 1 were dropped
C16_Witness ==
    /\ Len(typeLog) = 2
    /\ typeLog[1].outcome = "other"
    /\ typeLog[1].asked = <<1, 2>>
    /\ Len(typeLog[1].received) = 2
    /\ typeLog[2].outcome = "ok"
    /\ fs.file # None
    /\ Len(fs.file[1]) = 1
    /\ fs.file[1][1].postType = typeLog[2].type

----------------------------------------------------------------------------
(* Claims about the report file.                                           *)

NothingWritten == [dir |-> FALSE, file |-> None]

\* every mapper has returned its row and no request is outstanding
RowsComplete ==
    /\ inflight = {}
    /\ Len(flatData) = Len(allExtractedData)
    /\ \A i \in 1..Len(flatData) : flatData[i] # None

\* before the Write stage the file system is untouched; the Write stage is
\* entered with every request answered and every row made; a written file
\* holds the whole row sequence and ends the run
WrittenAtTheEnd ==
    /\ pc \notin {"Write", "Done"} => fs = NothingWritten
    /\ fs # NothingWritten => RowsComplete /\ allExtractedData # <<>>
    /\ pc = "Write" => RowsComplete /\ fs.file = None
    /\ fs.file # None =>
          /\ pc = "Done"
          /\ fs.dir
          /\ fs.file[1] = [i \in 1..Len(allExtractedData) |-> flatData[i][1]]

\* C17: the report file is written at most once, in one write of the whole
\* row sequence, after every request of the run has returned or failed, and
\* in no stage before Write.
C17_ReportWrittenOnce ==
    /\ []WrittenAtTheEnd
    /\ [][fs.file' # fs.file =>
             /\ fs.file = None
             /\ pc = "Write"
             /\ RowsComplete
             /\ pc' = "Done"]_vars

\* the report of three items is on disk after both media lookups were answered
C17_Witness ==
    /\ fs.file # None
    /\ Len(fs.file[1]) = 3
    /\ Cardinality({k \in 1..Len(net) : net[k].path = "media"}) = 2
    /\ inflight = {}
    /\ pc = "Done"

----------------------------------------------------------------------------
(* Claims about type discovery.                                            *)

\* the positions of a listing whose entry is viewable and has a rest_base
Qualifying(listing) ==
    {i \in 1..Len(listing) : listing[i].viewable /\ listing[i].rest_base # ""}

\* the k-th smallest element of a set of positions
RECURSIVE Nth(_, _)
Nth(positions, k) ==
    LET least == CHOOSE i \in positions : \A j \in positions : i <= j IN
    IF k = 1 THEN least ELSE Nth(positions \ {least}, k - 1)

\* the slugs of the qualifying entries in listing order, or the default
ExpectedTypes(listing) ==
    LET positions == Qualifying(listing) IN
    IF positions = {} THEN <<"posts", "pages">>
    ELSE [k \in 1..Cardinality(positions) |-> listing[Nth(positions, k)].rest_base]

\* C18: when the /types request succeeds getPostTypes returns the rest_base
\* of every entry that is viewable and has a non-empty rest_base, in listing
\* order, or [posts, pages] when there is no such entry; never an empty list.
C18_PostTypesNeverEmpty ==
    /\ [][\A listing \in AnyTypeListings :
             TypesResponseTo(listing) =>
                 /\ postTypes' = ExpectedTypes(listing)
                 /\ postTypes' # <<>>
                 /\ exitCode' = Running]_vars
    /\ [](pc = "FetchType" => postTypes # <<>> /\ "" \notin Range(postTypes))

\* getPostTypes returned two slugs found in the listing
C18_Witness ==
    /\ pc = "FetchType"
    /\ postTypes = <<"pages", "books">>
    /\ <<"log: found post types", "types">> \in console

----------------------------------------------------------------------------
(* Claims about the caches.                                                *)

\* a step removes no entry of a cache
KeepsEntries(cache, cacheAfter) == DOMAIN cache \subseteq DOMAIN cacheAfter

\* a step leaves the value of every entry of a cache as it was
KeepsValues(cache, cacheAfter) ==
    \A id \in DOMAIN cache \cap DOMAIN cacheAfter : cacheAfter[id] = cache[id]

\* the two parts of C19 that are about the reference caches: no entry is
\* ever removed or rewritten, and nothing changes them once the tags fetch
\* is over
RefCachesOnlyGrow ==
    [][/\ KeepsEntries(authorCache, authorCache')
       /\ KeepsEntries(categoryCache, categoryCache')
       /\ KeepsEntries(tagCache, tagCache')
       /\ KeepsEntries(mediaCache, mediaCache')
       /\ pc \notin {"CollectCredentials", "BuildClient"} \cup RefStages =>
             <<authorCache, categoryCache, tagCache>>'
                 = <<authorCache, categoryCache, tagCache>>]_vars

\* C19: no entry is ever removed from any of the four caches, the author,
\* category and tag caches do not change after the CacheTags stage, and the
\* value the media cache holds for an id never changes once it is there.
C19_CachesNeverInvalidated ==
    [][/\ KeepsEntries(authorCache, authorCache')
       /\ KeepsEntries(categoryCache, categoryCache')
       /\ KeepsEntries(tagCache, tagCache')
       /\ KeepsEntries(mediaCache, mediaCache')
       /\ pc \notin {"CollectCredentials", "BuildClient"} \cup RefStages =>
             <<authorCache, categoryCache, tagCache>>'
                 = <<authorCache, categoryCache, tagCache>>
       /\ KeepsValues(mediaCache, mediaCache')]_vars

----------------------------------------------------------------------------
(* Claims about termination.                                               *)

Terminated == pc \in {"Done", "Exited"}

\* the most requests a run can make: MaxPages pages of each reference
\* endpoint, one /types, MaxPages pages of each discovered type, one media
\* lookup for each item
RequestBound == 3 * MaxPages + 1 + Len(postTypes) * MaxPages + Len(allExtractedData)

\* C20: when every request is answered or fails, every run ends, in Done or
\* by exiting; the number of requests is bounded, the page counter never
\* goes down and never passes the announced total by more than one.
C20_RunsTerminate ==
    /\ <>Terminated
    /\ [](Len(net) <= RequestBound)
    /\ [](page <= totalPages + 1 /\ totalPages <= MaxPages)
    /\ [][pc' = pc /\ pc \in PagedStages /\ typeIdx' = typeIdx => page' >= page]_vars
    /\ [][Terminated => UNCHANGED vars]_vars

\* a run that ended after a reference fetch and a listing failed
C20_Witness ==
    /\ pc = "Done"
    /\ RefFailed("users")
    /\ FailedTypes # {}
    /\ Len(net) >= 6
    /\ inflight = {}

====
